---- MODULE Spec2Model ----
(***************************************************************************)
(* A model of sipbuild/module/source/13/sip_enum.c: the bridge between the *)
(* generated enum descriptors (sipEnumTypeDef), the flat table of members  *)
(* (sipIntInstanceDef) and the Python enum objects built from them.        *)
(*                                                                         *)
(* Python integers are unbounded and the values that matter here reach     *)
(* 2^32 - 1, so a Python integer p is kept as two limbs,                   *)
(* p = hi * 65536 + lo with 0 <= lo < 65536.  A C int is an Int in         *)
(* -2^31 .. 2^31 - 1.                                                      *)
(***************************************************************************)
EXTENDS Integers, Sequences, FiniteSets, TLC

\* Number of enum descriptors the generated module declares.
NumEnums == 2

\* Largest etd_nr_members of a descriptor.
MaxMembers == 2

NULL == 0

VARIABLES
    pc,        \* "start", "ready" (sip_enum_init succeeded), "initfailed", "loaded"
    rt,        \* the file's static PyObject pointers (lines 32-40)
    descs,     \* the module's sipEnumTypeDef records, in declaration order
    table,     \* the module's sipIntInstanceDef table
    cursor,    \* *next_int_p: number of table entries already consumed
    next,      \* the next descriptor the module's loader will register
    stopped,   \* a registration failed: the loader registers nothing more
    slot,      \* etd->etd_base.td_py_type of each descriptor (NULL or an object)
    objs,      \* the enum objects the host has constructed, by identity
    dict,      \* the namespace passed to sip_enum_create: {<<name, object>>}
    crashed,   \* the process was aborted (assert) or killed (invalid access)
    inst,      \* the Python object the caller currently holds (a conversion's result)
    last       \* what the last call was given and what it returned

vars == <<pc, rt, descs, table, cursor, next, stopped, slot, objs, dict, crashed, inst, last>>

Enums == 1 .. NumEnums

----------------------------------------------------------------------------
(* Integers                                                                *)

INT_MAX == 32767 * 65536 + 65535
INT_MIN == -INT_MAX - 1

\* The Python integer a C long holds.
PyLong_FromLong(v) == [hi |-> v \div 65536, lo |-> v % 65536]

\* (unsigned)v for a 32-bit int v, as the Python integer PyLong_FromUnsignedLong makes.
PyLong_FromUnsignedLong(v) == [hi |-> (v \div 65536) % 65536, lo |-> v % 65536]

\* (int)u of an unsigned 32-bit u given as limbs.
CastToInt(u) == (IF u.hi >= 32768 THEN u.hi - 65536 ELSE u.hi) * 65536 + u.lo

\* sip_api_long_as_int(): the value, or an OverflowError outside INT_MIN..INT_MAX.
sip_api_long_as_int(p) ==
    IF p.hi >= -32768 /\ p.hi <= 32767
    THEN [val |-> p.hi * 65536 + p.lo, err |-> FALSE]
    ELSE [val |-> -1, err |-> TRUE]

\* (int)sip_api_long_as_unsigned_int(): an OverflowError outside 0..UINT_MAX.
sip_api_long_as_unsigned_int(p) ==
    IF p.hi >= 0 /\ p.hi <= 65535
    THEN [val |-> CastToInt(p), err |-> FALSE]
    ELSE [val |-> -1, err |-> TRUE]

----------------------------------------------------------------------------
(* The process-wide state and sip_enum_init()                              *)

BaseSlots == <<"enum_type", "int_enum_type", "flag_type", "int_flag_type">>
StrSlots == <<"str_dunder_sip", "str_module", "str_qualname", "str_value">>
RtSlots == {BaseSlots[i] : i \in 1 .. 4} \cup {StrSlots[i] : i \in 1 .. 4}

\* A static pointer is "NULL", holds a reference the file owns ("owned"), or
\* still holds the address of a reference the file has given up ("released").
RtInit == [s \in RtSlots |-> "NULL"]

\* What the host can do to one run of sip_enum_init(): the import fails, some
\* of the four attributes are missing, the k-th string cannot be made.
InitOutcomes ==
    [import_ok : BOOLEAN,
     missing : SUBSET {BaseSlots[i] : i \in 1 .. 4},
     objectify_fail : 0 .. 4]

sip_enum_init(r, o) ==
    LET got == [s \in RtSlots |->
                    IF s \in {BaseSlots[i] : i \in 1 .. 4}
                    THEN (IF s \in o.missing THEN "NULL" ELSE "owned")
                    ELSE r[s]]
        dropped == [s \in RtSlots |-> IF got[s] = "owned" THEN "released" ELSE got[s]]
        strs == [s \in RtSlots |->
                    IF \E i \in 1 .. 4 :
                          /\ StrSlots[i] = s
                          /\ (o.objectify_fail = 0 \/ i < o.objectify_fail)
                    THEN "owned"
                    ELSE got[s]]
    IN  IF ~o.import_ok THEN [rt |-> r, rc |-> -1]
        ELSE IF o.missing # {} THEN [rt |-> dropped, rc |-> -1]
        ELSE IF o.objectify_fail # 0 THEN [rt |-> strs, rc |-> -1]
        ELSE [rt |-> strs, rc |-> 0]

----------------------------------------------------------------------------
(* The generated descriptors and the member table                          *)

BaseTypes == <<"SIP_ENUM_ENUM", "SIP_ENUM_INT_ENUM", "SIP_ENUM_UINT_ENUM",
               "SIP_ENUM_FLAG", "SIP_ENUM_INT_FLAG">>

\* The macro without its last disjunct: a FLAG is taken as signed.
IS_UNSIGNED_ENUM_noflag(etd) ==
    \/ etd.etd_base_type = "SIP_ENUM_UINT_ENUM"
    \/ etd.etd_base_type = "SIP_ENUM_INT_FLAG"

IS_UNSIGNED_ENUM(etd) ==
    \/ etd.etd_base_type = "SIP_ENUM_UINT_ENUM"
    \/ etd.etd_base_type = "SIP_ENUM_INT_FLAG"
    \/ etd.etd_base_type = "SIP_ENUM_FLAG"

\* sipPyNameOfEnum(etd)
sipPyNameOfEnum(d) == <<"Enum", d>>

\* The native values the table's entries cycle through.
NativeVals == <<-1, INT_MIN, 1, INT_MAX>>

\* The modules the generator can emit, within the bounds: each descriptor's
\* flavor, member count and scope, and a table that holds the members of all
\* descriptors in declaration order, or is one entry short of that.  The
\* member counts and the short table vary under one assignment of flavors
\* (a signed and an unsigned one first); the flavors vary with full counts.
RECURSIVE SumMembers(_, _)
SumMembers(ds, d) == IF d = 0 THEN 0 ELSE ds[d].etd_nr_members + SumMembers(ds, d - 1)

MakeTable(len) ==
    [i \in 1 .. len |-> [ii_name |-> <<"m", i>>, ii_val |-> NativeVals[((i - 1) % 4) + 1]]]

ConfigChoices ==
    { c \in [f0 : 0 .. 4, cnt : [Enums -> 0 .. MaxMembers], sc : {-1, 0}, sh : {0, 1}] :
        c.f0 = 0 \/ (c.sh = 0 /\ \A d \in Enums : c.cnt[d] = MaxMembers) }

ModuleConfigs ==
    { [descs |-> [d \in Enums |->
                    [etd_base_type |-> BaseTypes[((c.f0 + d) % 5) + 1],
                     etd_nr_members |-> c.cnt[d],
                     etd_scope |-> c.sc,
                     etd_pyslots |-> (d % 2 = 0)]],
       short |-> c.sh] : c \in ConfigChoices }

----------------------------------------------------------------------------
(* create_enum_object() and sip_enum_create()                              *)

\* The mutable state a call works on, as one record.
Store ==
    [cursor |-> cursor, slot |-> slot, objs |-> objs, dict |-> dict,
     crashed |-> crashed, next |-> next, stopped |-> stopped, over |-> FALSE]

\* Where a call into the host fails: nowhere, or at one of the calls that can
\* return an error.
FailPoints ==
    {"none", "name", "dict_new", "set_member", "args", "host", "attach", "dict_set"}

\* What reading next_int past the end of the table does: the assert (or the
\* invalid access) ends the process, the bad entry makes the insertion fail,
\* or whatever lies there is taken as an entry.
OverreadOutcomes == {"abort", "error", "garbage"}

\* What using an invalid object pointer (NULL, or freed) does.
BadPointerOutcomes == {"crash", "proceed"}

\* The inputs of one call: the failing host call (fp; for "set_member" the
\* entry k whose insertion fails), the descriptor of a batch it fails in
\* (failAt), what reading past the table does (ub), what an invalid pointer
\* does (bad), and whether adding a scope's lazy attributes is attempted (mo).
DefaultIn ==
    [fp |-> "none", k |-> 1, ub |-> "abort", bad |-> "crash", mo |-> "run", failAt |-> 1]

\* The entry next_int points at, i entries into the table (1-based).
Entry(i) ==
    IF i <= Len(table) THEN table[i] ELSE [ii_name |-> <<"?", i>>, ii_val |-> 0]

\* Lines 250-253: the Python value of a member.
MemberValue(etd, v) ==
    IF IS_UNSIGNED_ENUM(etd) THEN PyLong_FromUnsignedLong(v) ELSE PyLong_FromLong(v)

\* The increment of line 258 done before the entry is used.
Members_skip(etd, pos) ==
    [i \in 1 .. etd.etd_nr_members |->
        [name |-> Entry(pos + i + 1).ii_name,
         value |-> MemberValue(etd, Entry(pos + i + 1).ii_val)]]

\* Lines 243-259: the members dict, in insertion order.
Members(etd, pos) ==
    [i \in 1 .. etd.etd_nr_members |->
        [name |-> Entry(pos + i).ii_name,
         value |-> MemberValue(etd, Entry(pos + i).ii_val)]]

\* One entry consumed whatever etd_nr_members is.
NextIntAfter_one(etd, pos) == pos + 1

\* The write-back of line 261 left out.
NextIntAfter_stale(etd, pos) == pos

\* Lines 258-261: where the loop leaves next_int, written back to *next_int_p.
NextIntAfter(etd, pos) == pos + etd.etd_nr_members

\* sip_get_qualname(scope, name): the scope's qualified name, a dot, the name.
sip_get_qualname(scope, name) == <<"Outer", scope>> \o name

\* The test of line 275 never taken: no qualname keyword argument.
QualnameArg_never(d) == <<>>

\* Lines 275-289: the qualname keyword argument, absent for an unscoped enum.
QualnameArg(d) ==
    IF descs[d].etd_scope >= 0
    THEN sip_get_qualname(descs[d].etd_scope, sipPyNameOfEnum(d))
    ELSE <<>>

\* Lines 295-302: the host class called to make the enum.
EnumFactory(etd) ==
    IF etd.etd_base_type = "SIP_ENUM_INT_FLAG" THEN "int_flag_type"
    ELSE IF etd.etd_base_type = "SIP_ENUM_FLAG" THEN "flag_type"
    ELSE IF etd.etd_base_type \in {"SIP_ENUM_INT_ENUM", "SIP_ENUM_UINT_ENUM"}
    THEN "int_enum_type"
    ELSE "enum_type"

\* The __qualname__ the host gives the enum made at line 304: the qualname
\* keyword argument, or the name when there is none.
HostQualname(o) == IF o.qualname = <<>> THEN o.name ELSE o.qualname

\* The object cached in the module's first type instead of in etd.
CachePyType_first(sl, d, enum_obj) == [sl EXCEPT ![1] = enum_obj]

\* Line 312: the descriptor's td_py_type after the host has made the object.
CachePyType(sl, d, enum_obj) == [sl EXCEPT ![d] = enum_obj]

create_enum_object(st, d, in) ==
    LET etd == descs[d]
        pos == st.cursor
        nread == IF in.fp = "dict_new" THEN 0
                 ELSE IF in.fp = "set_member" THEN in.k
                 ELSE etd.etd_nr_members
        over == pos + nread > Len(table)
        st0 == [st EXCEPT !.over = @ \/ over]
        st1 == [st0 EXCEPT !.cursor = NextIntAfter(etd, pos)]
        id == Len(st.objs) + 1
        attached == in.fp # "attach"
        obj == [etd |-> d,
                factory |-> EnumFactory(etd),
                name |-> sipPyNameOfEnum(d),
                module |-> "em_nameobj",
                qualname |-> QualnameArg(d),
                members |-> Members(etd, pos),
                sip |-> IF attached THEN d ELSE NULL,
                pyslots |-> attached /\ etd.etd_pyslots,
                refcnt |-> IF attached THEN 1 ELSE 0]
        st2 == [st1 EXCEPT !.objs = Append(@, obj), !.slot = CachePyType(@, d, id)]
    IN  IF over /\ in.ub = "abort"
        THEN [res |-> NULL, st |-> [st0 EXCEPT !.crashed = TRUE]]
        ELSE IF in.fp \in {"dict_new", "set_member"} \/ (over /\ in.ub = "error")
        THEN [res |-> NULL, st |-> st0]
        ELSE IF in.fp \in {"args", "host"}
        THEN [res |-> NULL, st |-> st1]
        ELSE IF in.fp = "attach"
        THEN [res |-> NULL, st |-> st2]
        ELSE [res |-> id, st |-> st2]

\* The NULL test of line 127 left out.
NamespaceAfter_unchecked(dc, name, enum_obj, setok) ==
    IF ~setok THEN dc ELSE {p \in dc : p[1] # name} \cup {<<name, enum_obj>>}

\* Lines 127-134: the namespace after the call, PyDict_SetItem succeeding or not.
NamespaceAfter(dc, name, enum_obj, setok) ==
    IF enum_obj = NULL \/ ~setok
    THEN dc
    ELSE {p \in dc : p[1] # name} \cup {<<name, enum_obj>>}

\* Lines 133-140: the object is added to the dict and the call's own
\* references are released.
AddToDict(r, d, setok) ==
    LET dc == NamespaceAfter(r.st.dict, sipPyNameOfEnum(d), r.res, setok)
    IN  IF r.res = NULL
        THEN [rc |-> -1, st |-> [r.st EXCEPT !.dict = dc]]
        ELSE [rc |-> IF setok THEN 0 ELSE -1,
              st |-> [r.st EXCEPT !.dict = dc,
                                  !.objs[r.res].refcnt = IF setok THEN 1 ELSE 0]]

sip_enum_create(st, d, in) ==
    IF in.fp = "name"
    THEN [rc |-> -1, st |-> st]
    ELSE AddToDict(
            create_enum_object(st, d, [in EXCEPT !.fp = IF @ = "dict_set" THEN "none" ELSE @]),
            d, in.fp # "dict_set")

----------------------------------------------------------------------------
(* The callers of sip_enum_create(): the module's loader and the lazy      *)
(* attributes of a scope                                                   *)

\* One registration by the loader: the next descriptor in declaration order,
\* with the shared cursor.  A failure ends the loading; nothing is retried.
LoaderAfter(r, d) ==
    [rc |-> r.rc,
     st |-> [r.st EXCEPT !.next = d + 1, !.stopped = (r.rc < 0 \/ r.st.crashed)]]

RegisterOne(st, d, in) == LoaderAfter(sip_enum_create(st, d, in), d)

RECURSIVE RegisterFrom(_, _, _)
RegisterFrom(st, d, in) ==
    IF d > NumEnums \/ st.stopped \/ st.crashed
    THEN st
    ELSE RegisterFrom(
            RegisterOne(st, d, IF d = in.failAt THEN in ELSE [in EXCEPT !.fp = "none"]).st,
            d + 1, in)

\* sip_api_type_scope(td): the enclosing type, NULL for a module-level enum.
sip_api_type_scope(d) == IF descs[d].etd_scope >= 0 THEN descs[d].etd_scope + 1 ELSE NULL

\* sip_add_all_lazy_attrs(scope): nothing to do for NULL; otherwise the scope's
\* attributes are made in one batch, the enums not yet registered among them.
BatchResult(was_stopped, s2) ==
    [rc |-> IF s2.stopped /\ ~was_stopped THEN -1 ELSE 0, st |-> s2]

sip_add_all_lazy_attrs(st, scope, in) ==
    IF scope = NULL THEN [rc |-> 0, st |-> st]
    ELSE IF in.mo = "fail" THEN [rc |-> -1, st |-> st]
    ELSE BatchResult(st.stopped, RegisterFrom(st, st.next, in))

----------------------------------------------------------------------------
(* get_enum_type() and the conversions                                     *)

\* Lines 366-369: the result once the lazy attributes have been added.
Reread(r, td) ==
    IF r.rc < 0
    THEN [obj |-> NULL, st |-> r.st, lazy |-> TRUE]
    ELSE [obj |-> r.st.slot[td], st |-> r.st, lazy |-> TRUE]

\* The test of line 364 left out: the lazy attributes are added on every call.
get_enum_type_always(st, td, in) ==
    Reread(sip_add_all_lazy_attrs(st, sip_api_type_scope(td), in), td)

get_enum_type(st, td, in) ==
    IF st.slot[td] # NULL
    THEN [obj |-> st.slot[td], st |-> st, lazy |-> FALSE]
    ELSE Reread(sip_add_all_lazy_attrs(st, sip_api_type_scope(td), in), td)

\* A Python object a caller holds: its class, its value attribute, and, for
\* the result of sip_api_convert_from_enum(), the call that made it.
NoInst == [cls |-> NULL, value |-> PyLong_FromLong(0), kind |-> "none", native |-> 0, of |-> 0]

\* An object that is no enum member: a plain Python integer.
PlainInt(v) ==
    [cls |-> NULL, value |-> PyLong_FromLong(v), kind |-> "int", native |-> v, of |-> 0]

\* The "(i)" format used for every flavor.
CallArg_signed(etd, member) == PyLong_FromLong(member)

\* Lines 61-62: the argument built by the "(I)" or "(i)" format.
CallArg(etd, member) ==
    IF IS_UNSIGNED_ENUM(etd) THEN PyLong_FromUnsignedLong(member) ELSE PyLong_FromLong(member)

\* The host's EnumType.__call__(value): the member with that value; for a
\* value of no member the host raises or makes a pseudo-member.
HostLookup(st, et, py, host) ==
    IF \E i \in 1 .. Len(st.objs[et].members) : st.objs[et].members[i].value = py
    THEN [res |-> [NoInst EXCEPT !.cls = et, !.value = py, !.kind = "member"], err |-> FALSE]
    ELSE IF host = "raise"
    THEN [res |-> NoInst, err |-> TRUE]
    ELSE [res |-> [NoInst EXCEPT !.cls = et, !.value = py, !.kind = "pseudo"], err |-> FALSE]

\* Is the pointer one the host may be handed?
Valid(st, o) == o # NULL /\ st.objs[o].refcnt > 0

\* Lines 61-62: the host is called with the type get_enum_type() returned.
\* PyObject_CallFunction() tests its callable for NULL and returns an error;
\* a pointer to a released object is used as it is.
CallEnum(g, member, td, bad, host) ==
    IF g.st.crashed
    THEN [res |-> NoInst, err |-> TRUE, g |-> g, st |-> g.st]
    ELSE IF g.obj = NULL
    THEN [res |-> NoInst, err |-> TRUE, g |-> g, st |-> g.st]
    ELSE IF ~Valid(g.st, g.obj) /\ bad = "crash"
    THEN [res |-> NoInst, err |-> TRUE, g |-> g, st |-> [g.st EXCEPT !.crashed = TRUE]]
    ELSE LET call == HostLookup(g.st, g.obj, CallArg(descs[td], member), host)
         IN  [res |-> IF call.err THEN NoInst
                      ELSE [call.res EXCEPT !.native = member, !.of = td],
              err |-> call.err, g |-> g, st |-> g.st]

sip_api_convert_from_enum(st, member, td, in, host) ==
    CallEnum(get_enum_type(st, td, in), member, td, in.bad, host)

\* The signed conversion used for every flavor.
ValueAsInt_signed(etd, val_obj) == sip_api_long_as_int(val_obj)

\* Lines 92-95: the C value of the member's value attribute.
ValueAsInt(etd, val_obj) ==
    IF IS_UNSIGNED_ENUM(etd)
    THEN sip_api_long_as_unsigned_int(val_obj)
    ELSE sip_api_long_as_int(val_obj)

\* The error indicator: no exception pending, or the pending exception.
NoExc == [type |-> "none", expected |-> <<>>, actual |-> <<>>]

Raised(type) == [NoExc EXCEPT !.type = type]

\* Py_TYPE(obj)->tp_name: the enum's name for a member, the metaclass for an
\* enum or a class, "int" for a plain integer.
tp_name(st, obj) ==
    IF obj.kind \in {"member", "pseudo"} THEN st.objs[obj.cls].name
    ELSE IF obj.kind = "type" THEN <<"EnumType">>
    ELSE IF obj.kind = "class" THEN <<"type">>
    ELSE <<"int">>

\* Lines 347-351: the TypeError naming the enum expected and the type found.
enum_expected(st, obj, td) ==
    [type |-> "TypeError", expected |-> sipPyNameOfEnum(td), actual |-> tp_name(st, obj)]

\* Every enum member passes the instance check, whatever its enum.
IsInstance_any(obj, type_obj) ==
    type_obj # NULL /\ obj.kind \in {"member", "pseudo"}

\* Line 81: PyObject_IsInstance(obj, type_obj) > 0.  No generated enum has a
\* subclass, so an instance of type_obj is an object whose class it is.
IsInstance(obj, type_obj) ==
    type_obj # NULL /\ obj.kind \in {"member", "pseudo"} /\ obj.cls = type_obj

\* Lines 80-99: the instance check and the value, with the type
\* get_enum_type() returned.
CheckAndGet(g, obj, td, bad, attr_ok) ==
    IF g.st.crashed
    THEN [val |-> -1, err |-> TRUE, exc |-> NoExc, g |-> g, st |-> g.st]
    ELSE IF ~Valid(g.st, g.obj) /\ bad = "crash"
    THEN [val |-> -1, err |-> TRUE, exc |-> NoExc, g |-> g,
          st |-> [g.st EXCEPT !.crashed = TRUE]]
    ELSE IF ~IsInstance(obj, g.obj)
    THEN [val |-> -1, err |-> TRUE, exc |-> enum_expected(g.st, obj, td), g |-> g, st |-> g.st]
    ELSE IF ~attr_ok
    THEN [val |-> -1, err |-> TRUE, exc |-> Raised("AttributeError"), g |-> g, st |-> g.st]
    ELSE LET v == ValueAsInt(descs[td], obj.value)
         IN  [val |-> v.val, err |-> v.err,
              exc |-> IF v.err THEN Raised("OverflowError") ELSE NoExc,
              g |-> g, st |-> g.st]

sip_api_convert_to_enum(st, obj, td, in, attr_ok) ==
    CheckAndGet(get_enum_type(st, td, in), obj, td, in.bad, attr_ok)

----------------------------------------------------------------------------
(* sip_api_is_enum_flag(), sip_enum_is_enum(), sip_enum_get_generated_type() *)

\* A class that is no enum: int.
IntClass == [NoInst EXCEPT !.kind = "class"]

\* The enum object itself (the class of its members); cls is its identity.
EnumTypeObj(id) == [NoInst EXCEPT !.kind = "type", !.cls = id]

\* enum.IntEnum and enum.Flag derive from enum.Enum, enum.IntFlag from enum.Flag.
Derives(factory, base) ==
    \/ base = "enum_type"
    \/ base = factory
    \/ base = "flag_type" /\ factory = "int_flag_type"

\* PyObject_IsSubclass(obj, base): 1 or 0 for a class; for an object that is
\* not a class, -1 with a TypeError set.
PyObject_IsSubclass(st, obj, base) ==
    IF obj.kind = "type"
    THEN [r |-> IF Derives(st.objs[obj.cls].factory, base) THEN 1 ELSE 0, exc |-> NoExc]
    ELSE IF obj.kind = "class"
    THEN [r |-> 0, exc |-> NoExc]
    ELSE [r |-> -1, exc |-> Raised("TypeError")]

\* Lines 106-109.  The exception of a failed test is left pending.
sip_api_is_enum_flag(st, obj) ==
    LET sub == PyObject_IsSubclass(st, obj, "flag_type")
    IN  [val |-> IF sub.r = 1 THEN 1 ELSE 0, exc |-> sub.exc]

\* Lines 219-222.
sip_enum_is_enum(st, obj) ==
    LET sub == PyObject_IsSubclass(st, obj, "enum_type")
    IN  [val |-> IF sub.r = 1 THEN 1 ELSE 0, exc |-> sub.exc]

\* Lines 148-167: the descriptor in the __sip__ capsule of an enum; NULL, with
\* the error cleared, when the attribute cannot be read; NULL when obj is not
\* a subclass of enum.Enum.
sip_enum_get_generated_type(st, obj, attr_ok) ==
    LET is == sip_enum_is_enum(st, obj)
    IN  IF is.val # 0
        THEN IF attr_ok /\ st.objs[obj.cls].sip # NULL
             THEN [td |-> st.objs[obj.cls].sip, exc |-> NoExc]
             ELSE [td |-> NULL, exc |-> NoExc]
        ELSE [td |-> NULL, exc |-> is.exc]

----------------------------------------------------------------------------
(* The state machine                                                       *)

NoLast ==
    [op |-> "none", td |-> 0, fp |-> "none", rc |-> 0, err |-> FALSE,
     res_obj |-> NULL, res_inst |-> NoInst, arg_inst |-> NoInst, arg_int |-> 0,
     slot0 |-> [d \in Enums |-> NULL], dict0 |-> {}, cursor0 |-> 0, made0 |-> 0,
     over |-> FALSE, lazy |-> FALSE, attr_ok |-> TRUE, exc |-> NoExc, res_td |-> NULL]

\* The record of a call, with the state it started from.
Call(op, td, fp) ==
    [NoLast EXCEPT !.op = op, !.td = td, !.fp = fp, !.slot0 = slot, !.dict0 = dict,
                   !.cursor0 = cursor, !.made0 = Len(objs)]

Commit(st) ==
    /\ cursor' = st.cursor
    /\ slot' = st.slot
    /\ objs' = st.objs
    /\ dict' = st.dict
    /\ crashed' = st.crashed
    /\ next' = st.next
    /\ stopped' = st.stopped

\* The table entries the descriptors from d on still need.
RECURSIVE Remaining(_)
Remaining(d) == IF d > NumEnums THEN 0 ELSE descs[d].etd_nr_members + Remaining(d + 1)

\* The inputs that can make a difference to a registration of the descriptors
\* from next to upto: no failure, or one failure in one of them; and each
\* outcome of reading past the table where the table is too short for them.
CreateInputs(upto) ==
    LET ubs == IF cursor + Remaining(next) > Len(table) THEN OverreadOutcomes ELSE {"abort"}
        fails == {[DefaultIn EXCEPT !.fp = f, !.failAt = d] :
                     f \in FailPoints \ {"none", "set_member"}, d \in next .. upto}
                 \cup UNION {{[DefaultIn EXCEPT !.fp = "set_member", !.failAt = d, !.k = k] :
                                 k \in 1 .. descs[d].etd_nr_members} : d \in next .. upto}
    IN  {[in EXCEPT !.ub = u] :
            in \in {[DefaultIn EXCEPT !.failAt = next]} \cup fails, u \in ubs}

\* The inputs that can make a difference to get_enum_type(td).
LazyInputs(td) ==
    IF slot[td] # NULL \/ sip_api_type_scope(td) = NULL
    THEN {DefaultIn}
    ELSE {[DefaultIn EXCEPT !.mo = "fail"]}
         \cup (IF stopped \/ next > NumEnums THEN {DefaultIn} ELSE CreateInputs(NumEnums))

Init ==
    /\ pc = "start"
    /\ rt = RtInit
    /\ descs = <<>>
    /\ table = <<>>
    /\ cursor = 0
    /\ next = 1
    /\ stopped = FALSE
    /\ slot = [d \in Enums |-> NULL]
    /\ objs = <<>>
    /\ dict = {}
    /\ crashed = FALSE
    /\ inst = NoInst
    /\ last = NoLast

\* The sip module is imported: sip_enum_init() runs once.
SipEnumInit ==
    /\ pc = "start"
    /\ \E o \in InitOutcomes :
          /\ ~o.import_ok => o.missing = {}
          /\ (~o.import_ok \/ o.missing # {}) => o.objectify_fail = 0
          /\ LET r == sip_enum_init(rt, o)
             IN  /\ rt' = r.rt
                 /\ pc' = IF r.rc = 0 THEN "ready" ELSE "initfailed"
                 /\ last' = [Call("sip_enum_init", 0, "none") EXCEPT !.rc = r.rc,
                                                                    !.err = (r.rc < 0)]
    /\ UNCHANGED <<descs, table, cursor, next, stopped, slot, objs, dict, crashed, inst>>

\* A generated module is imported: its descriptors and its table exist.
LoadModule ==
    /\ pc = "ready"
    /\ \E c \in ModuleConfigs :
          LET total == SumMembers(c.descs, NumEnums)
          IN  /\ descs' = c.descs
              /\ table' = MakeTable(IF total >= c.short THEN total - c.short ELSE 0)
    /\ pc' = "loaded"
    /\ UNCHANGED <<rt, cursor, next, stopped, slot, objs, dict, crashed, inst, last>>

\* The loader registers the next enum of the module.
RegisterEnum ==
    /\ pc = "loaded" /\ ~crashed /\ ~stopped /\ next <= NumEnums
    /\ \E in \in CreateInputs(next) :
          /\ LET r == RegisterOne(Store, next, in)
             IN  /\ Commit(r.st)
                 /\ last' = [Call("sip_enum_create", next, in.fp) EXCEPT
                                !.rc = r.rc, !.err = (r.rc < 0), !.over = r.st.over,
                                !.res_obj = r.st.slot[next]]
    /\ UNCHANGED <<pc, rt, descs, table, inst>>

\* Some caller asks for the Python object of an enum type.
Resolve ==
    /\ pc = "loaded" /\ ~crashed
    /\ \E td \in Enums :
       \E g \in {get_enum_type(Store, td, in) : in \in LazyInputs(td)} :
          /\ Commit(g.st)
          /\ last' = [Call("get_enum_type", td, "none") EXCEPT
                         !.res_obj = g.obj, !.lazy = g.lazy, !.over = g.st.over,
                         !.err = (g.obj = NULL)]
    /\ UNCHANGED <<pc, rt, descs, table, inst>>

\* A C/C++ value is handed to Python.
ConvertFromEnum ==
    /\ pc = "loaded" /\ ~crashed
    /\ \E td \in Enums, i \in 0 .. 4 :
       LET member == IF i = 0 THEN 0 ELSE NativeVals[i]
       IN  \E r \in {sip_api_convert_from_enum(Store, member, td, [in EXCEPT !.bad = bad], host) :
                        in \in LazyInputs(td), bad \in BadPointerOutcomes,
                        host \in {"raise", "pseudo"}} :
              /\ Commit(r.st)
              /\ inst' = r.res
              /\ last' = [Call("sip_api_convert_from_enum", td, "none") EXCEPT
                             !.arg_int = member, !.res_inst = r.res, !.err = r.err,
                             !.res_obj = r.g.obj, !.lazy = r.g.lazy, !.over = r.st.over]
    /\ UNCHANGED <<pc, rt, descs, table>>

\* A Python object is handed to C/C++ as a value of an enum type.
ConvertToEnum ==
    /\ pc = "loaded" /\ ~crashed
    /\ \E td \in Enums, obj \in {o \in {inst, PlainInt(1)} : o.kind # "none"} :
       \E attr_ok \in BOOLEAN :
       \E r \in {sip_api_convert_to_enum(Store, obj, td, [in EXCEPT !.bad = bad], attr_ok) :
                    in \in LazyInputs(td), bad \in BadPointerOutcomes} :
          /\ Commit(r.st)
          /\ last' = [Call("sip_api_convert_to_enum", td, "none") EXCEPT
                         !.arg_inst = obj, !.rc = r.val, !.err = r.err, !.exc = r.exc,
                         !.attr_ok = attr_ok,
                         !.res_obj = r.g.obj, !.lazy = r.g.lazy, !.over = r.st.over]
    /\ UNCHANGED <<pc, rt, descs, table, inst>>

\* The Python objects a caller can hand to the classifying functions: what a
\* conversion returned, an integer, the class int, and the enum objects.
PyObjects ==
    {o \in {inst, PlainInt(1), IntClass} : o.kind # "none"}
        \cup {EnumTypeObj(slot[d]) : d \in {e \in Enums : Valid(Store, slot[e])}}

\* Some caller asks whether an object is a flag.
IsEnumFlag ==
    /\ pc = "loaded" /\ ~crashed
    /\ \E obj \in PyObjects :
          LET r == sip_api_is_enum_flag(Store, obj)
          IN  last' = [Call("sip_api_is_enum_flag", 0, "none") EXCEPT
                          !.arg_inst = obj, !.rc = r.val, !.exc = r.exc,
                          !.err = (r.exc # NoExc)]
    /\ UNCHANGED <<pc, rt, descs, table, cursor, next, stopped, slot, objs, dict, crashed, inst>>

\* Some caller asks for the descriptor of a Python object.
GetGeneratedType ==
    /\ pc = "loaded" /\ ~crashed
    /\ \E obj \in PyObjects :
       \E attr_ok \in IF obj.kind = "type" THEN BOOLEAN ELSE {TRUE} :
          LET r == sip_enum_get_generated_type(Store, obj, attr_ok)
          IN  last' = [Call("sip_enum_get_generated_type", 0, "none") EXCEPT
                          !.arg_inst = obj, !.res_td = r.td, !.exc = r.exc,
                          !.err = (r.exc # NoExc), !.attr_ok = attr_ok]
    /\ UNCHANGED <<pc, rt, descs, table, cursor, next, stopped, slot, objs, dict, crashed, inst>>

Next ==
    \/ SipEnumInit
    \/ LoadModule
    \/ RegisterEnum
    \/ Resolve
    \/ ConvertFromEnum
    \/ ConvertToEnum
    \/ IsEnumFlag
    \/ GetGeneratedType

Spec == Init /\ [][Next]_vars


----------------------------------------------------------------------------
(* Properties                                                              *)

\* Where descriptor d's members start in the table when every descriptor
\* before it has consumed its own.
RunStart(d) == SumMembers(descs, d - 1)

\* sip_enum_create(d) returned 0: the namespace and the descriptor hold the object.
Registered(d) ==
    /\ pc = "loaded"
    /\ slot[d] # NULL
    /\ <<sipPyNameOfEnum(d), slot[d]>> \in dict
    /\ objs[slot[d]].refcnt > 0

\* The Python integer p and the C int v have the same low 32 bits.
SameBits(p, v) == p.lo = v % 65536 /\ (p.hi - (v \div 65536)) % 65536 = 0

UINT_MAX_PY == [hi |-> 65535, lo |-> 65535]

LastIsCreate == last.op = "sip_enum_create"

\* The last call was given a descriptor that was registered when it began.
RegisteredAtCall ==
    /\ Registered(last.td)
    /\ last.slot0[last.td] = slot[last.td]

\* C1: when PyObject_SetAttr(enum_obj, "__sip__", capsule) fails, the object is
\* discarded unpublished: after the failed call the descriptor's td_py_type is
\* still NULL and the namespace has no entry for the enum.
C1_AttachFailureUnpublished ==
    (LastIsCreate /\ last.fp = "attach" /\ last.rc < 0)
        => /\ slot[last.td] = NULL
           /\ \A p \in dict : p[1] # sipPyNameOfEnum(last.td)

\* C2: a call that finds fewer entries left after the cursor than
\* etd_nr_members returns an error, reads nothing past the end of the table
\* and creates no enum object.
C2_MemberExhaustion ==
    (LastIsCreate /\ last.cursor0 + descs[last.td].etd_nr_members > Len(table))
        => /\ last.rc < 0
           /\ ~last.over
           /\ ~crashed
           /\ Len(objs) = last.made0

AllRegistered == pc = "loaded" /\ next > NumEnums /\ ~stopped /\ ~crashed

\* C3: for a table as long as the sum of the descriptors' member counts, once
\* every descriptor has been registered successfully, in declaration order,
\* the cursor is exactly at the end of the table.
C3_CursorExact ==
    (AllRegistered /\ Len(table) = SumMembers(descs, NumEnums))
        => cursor = Len(table)

C3_Witness ==
    /\ AllRegistered
    /\ Len(table) = NumEnums * MaxMembers
    /\ cursor = Len(table)
    /\ \A d \in Enums : Registered(d)

\* C4: the members of the k-th successfully registered enum are the table
\* entries from where the (k-1)-th registration left the cursor, as many as
\* etd_nr_members, in table order, each with its own name and its own value
\* (the same 32 bits); so no entry serves two enums and none is skipped.
C4_ContiguousRuns ==
    pc = "loaded" =>
        \A d \in Enums :
            (Registered(d) /\ RunStart(d) + descs[d].etd_nr_members <= Len(table))
                => LET m == objs[slot[d]].members
                   IN  /\ Len(m) = descs[d].etd_nr_members
                       /\ \A i \in 1 .. Len(m) :
                             /\ m[i].name = table[RunStart(d) + i].ii_name
                             /\ SameBits(m[i].value, table[RunStart(d) + i].ii_val)

C4_Witness ==
    /\ \A d \in Enums : Registered(d) /\ Len(objs[slot[d]].members) = MaxMembers
    /\ Len(table) = NumEnums * MaxMembers
    /\ objs[slot[NumEnums]].members[1].name = table[RunStart(NumEnums) + 1].ii_name

\* C5: a failed sip_enum_init() keeps nothing: no static pointer is left
\* holding a reference, owned or released.
C5_InitAtomic ==
    pc = "initfailed" => \A s \in RtSlots : rt[s] = "NULL"

\* The last call converted a member of the INT_FLAG enum td whose native value
\* is -1, with td's object alive and the member's value attribute readable.
C6_Case ==
    /\ last.op = "sip_api_convert_to_enum"
    /\ descs[last.td].etd_base_type = "SIP_ENUM_INT_FLAG"
    /\ RegisteredAtCall
    /\ last.arg_inst.kind = "member"
    /\ last.arg_inst.cls = slot[last.td]
    /\ last.arg_inst.native = -1
    /\ last.attr_ok
    /\ ~last.over

\* C6 as claimed: the conversion reports 4294967295, not a negative number.
C6_ReportsMagnitude ==
    C6_Case => last.rc >= 0 /\ PyLong_FromLong(last.rc) = UINT_MAX_PY

\* C6 as amended: the member's Python value is 4294967295, the conversion
\* accepts it without an error, and returns the int with the same 32 bits, -1.
C6_ReportsBitPattern ==
    C6_Case => /\ last.arg_inst.value = UINT_MAX_PY
               /\ ~last.err
               /\ last.rc = -1
               /\ PyLong_FromUnsignedLong(last.rc) = UINT_MAX_PY

C6_Witness == C6_Case /\ last.rc = -1 /\ ~last.err

\* The native value v is the value of one of td's entries in the table.
IsNativeMember(td, v) ==
    /\ RunStart(td) + descs[td].etd_nr_members <= Len(table)
    /\ \E i \in 1 .. descs[td].etd_nr_members : table[RunStart(td) + i].ii_val = v

\* C7: for every member m of every registered enum td, of every flavor,
\* sip_api_convert_from_enum(m, td) is a member of td's object, and
\* sip_api_convert_to_enum() of that member gives m back.
C7_RoundTrip ==
    /\ (/\ last.op = "sip_api_convert_from_enum"
        /\ RegisteredAtCall
        /\ IsNativeMember(last.td, last.arg_int))
           => /\ ~last.err
              /\ inst.kind = "member"
              /\ inst.cls = slot[last.td]
    /\ (/\ last.op = "sip_api_convert_to_enum"
        /\ RegisteredAtCall
        /\ last.arg_inst.kind = "member"
        /\ last.arg_inst.of = last.td
        /\ last.arg_inst.cls = slot[last.td]
        /\ IsNativeMember(last.td, last.arg_inst.native)
        /\ last.attr_ok)
           => /\ ~last.err
              /\ last.rc = last.arg_inst.native

C7_Witness ==
    /\ last.op = "sip_api_convert_to_enum"
    /\ RegisteredAtCall
    /\ IS_UNSIGNED_ENUM(descs[last.td])
    /\ last.arg_inst.kind = "member"
    /\ last.arg_inst.of = last.td
    /\ IsNativeMember(last.td, last.arg_inst.native)
    /\ last.arg_inst.native = INT_MIN
    /\ last.rc = INT_MIN
    /\ ~last.err

LastResolved == last.op \in {"get_enum_type", "sip_api_convert_from_enum", "sip_api_convert_to_enum"}

\* C8: get_enum_type() of a descriptor whose td_py_type is set returns that
\* very object, adds no lazy attributes, constructs nothing and leaves the
\* pointer as it was (so a second call returns the same object); the lazy
\* attributes are added only when td_py_type is NULL, and the result is then
\* the pointer read again, or NULL if adding them failed.
C8_ResolveCached ==
    LastResolved =>
        /\ last.slot0[last.td] # NULL
              => /\ last.res_obj = last.slot0[last.td]
                 /\ ~last.lazy
                 /\ Len(objs) = last.made0
                 /\ slot = last.slot0
        /\ last.slot0[last.td] = NULL
              => /\ last.lazy
                 /\ last.res_obj \in {slot[last.td], NULL}

C8_Witness ==
    /\ last.op = "get_enum_type"
    /\ Registered(last.td)
    /\ last.slot0[last.td] = slot[last.td]
    /\ last.res_obj = slot[last.td]
    /\ ~last.lazy

C10_HostRejects ==
    (LastIsCreate /\ last.fp = "host")
        => /\ last.rc < 0
           /\ slot[last.td] = NULL
           /\ dict = last.dict0
           /\ Len(objs) = last.made0

C10_Witness ==
    /\ LastIsCreate /\ last.fp = "host" /\ ~last.over /\ ~crashed
    /\ last.rc < 0
    /\ descs[last.td].etd_nr_members > 0
    /\ cursor = last.cursor0 + descs[last.td].etd_nr_members
    /\ last.td = NumEnums
    /\ dict # {}

\* The last call converted, against the registered enum td, a member of
\* another enum whose object is alive.
C11_Case ==
    /\ last.op = "sip_api_convert_to_enum"
    /\ RegisteredAtCall
    /\ last.arg_inst.kind \in {"member", "pseudo"}
    /\ last.arg_inst.cls # slot[last.td]
    /\ objs[last.arg_inst.cls].refcnt > 0
    /\ ~last.over

\* C11 as claimed: the conversion fails with the TypeError, and the int it
\* returns is the value of no member of td.
C11_ResultDistinct ==
    C11_Case => /\ last.err
                /\ last.exc.type = "TypeError"
                /\ ~IsNativeMember(last.td, last.rc)

\* C11 as amended: sip_api_convert_to_enum() of a member of another enum fails
\* with a TypeError naming td's enum and the object's type, and returns -1,
\* never the object's value; the pending exception is what tells the failure
\* from the member -1 of td.
C11_TypeMismatch ==
    C11_Case => /\ last.err
                /\ last.exc.type = "TypeError"
                /\ last.exc.expected = sipPyNameOfEnum(last.td)
                /\ last.exc.actual = objs[last.arg_inst.cls].name
                /\ last.exc.actual # last.exc.expected
                /\ last.rc = -1

C11_Witness ==
    /\ C11_Case
    /\ last.err
    /\ last.arg_inst.kind = "member"
    /\ last.arg_inst.native = 1
    /\ last.rc = -1
    /\ IsNativeMember(last.td, -1)
    /\ last.attr_ok

\* obj is a member of an enum that is registered and alive.
IsEnumMember(obj) ==
    /\ obj.kind = "member"
    /\ obj.of \in Enums
    /\ Registered(obj.of)
    /\ obj.cls = slot[obj.of]

\* C12: sip_enum_get_generated_type() of a member of a registered enum returns
\* the descriptor the enum was created from; of a value that is no enum (an
\* integer) it returns NULL and leaves no exception pending.
C12_ReverseLookup ==
    last.op = "sip_enum_get_generated_type" =>
        /\ IsEnumMember(last.arg_inst)
              => /\ last.res_td = last.arg_inst.of
                 /\ objs[last.arg_inst.cls].etd = last.res_td
        /\ last.arg_inst.kind = "int"
              => /\ last.res_td = NULL
                 /\ ~last.err

\* C13: sip_api_is_enum_flag() of a member of a registered enum is true exactly
\* when the enum's flavor is FLAG or INT_FLAG, and it is false for a member of
\* an ENUM, INT_ENUM or UINT_ENUM enum and for a value that is no enum.
C13_FlagClassification ==
    last.op = "sip_api_is_enum_flag" =>
        /\ IsEnumMember(last.arg_inst)
              => (last.rc # 0 <=> descs[last.arg_inst.of].etd_base_type
                                      \in {"SIP_ENUM_FLAG", "SIP_ENUM_INT_FLAG"})
        /\ last.arg_inst.kind \in {"int", "class"} => last.rc = 0

\* C14: every enum object made for a descriptor with a scope was constructed
\* with the qualname <scope's qualified name>.<enum name>; one made for a
\* descriptor without a scope was constructed without a qualname, so that its
\* qualified name is its name.
C14_ScopedQualname ==
    pc = "loaded" =>
        \A i \in 1 .. Len(objs) :
            LET d == objs[i].etd
            IN  /\ objs[i].name = <<"Enum", d>>
                /\ descs[d].etd_scope >= 0
                      => /\ objs[i].qualname = <<"Outer", descs[d].etd_scope, "Enum", d>>
                         /\ HostQualname(objs[i]) = <<"Outer", descs[d].etd_scope>> \o objs[i].name
                /\ descs[d].etd_scope < 0
                      => /\ objs[i].qualname = <<>>
                         /\ HostQualname(objs[i]) = objs[i].name

C14_Witness ==
    /\ Registered(NumEnums)
    /\ descs[NumEnums].etd_scope = 0
    /\ HostQualname(objs[slot[NumEnums]]) = <<"Outer", 0, "Enum", NumEnums>>

UnsignedFlavors == {"SIP_ENUM_UINT_ENUM", "SIP_ENUM_FLAG", "SIP_ENUM_INT_FLAG"}

\* The Python integer of the native value v under a flavor's signing rule.
FlavorValue(flavor, v) ==
    IF flavor \in UnsignedFlavors
    THEN [hi |-> (v \div 65536) % 65536, lo |-> v % 65536]
    ELSE [hi |-> v \div 65536, lo |-> v % 65536]

\* The host class of a flavor.
FlavorBase(flavor) ==
    CASE flavor = "SIP_ENUM_ENUM" -> "enum_type"
      [] flavor = "SIP_ENUM_INT_ENUM" -> "int_enum_type"
      [] flavor = "SIP_ENUM_UINT_ENUM" -> "int_enum_type"
      [] flavor = "SIP_ENUM_FLAG" -> "flag_type"
      [] flavor = "SIP_ENUM_INT_FLAG" -> "int_flag_type"

\* C15: every flavor is classified, as unsigned iff it is UINT_ENUM, FLAG or
\* INT_FLAG, and that one rule gives the value of every member made from a
\* table entry, the value sip_api_convert_from_enum() looks up, and the int
\* sip_api_convert_to_enum() returns; the host class is enum.Enum for ENUM,
\* enum.IntEnum for INT_ENUM and UINT_ENUM, enum.Flag for FLAG and
\* enum.IntFlag for INT_FLAG.
C15_FlavorRule ==
    pc = "loaded" =>
        /\ \A d \in Enums :
              /\ \E k \in 1 .. 5 : descs[d].etd_base_type = BaseTypes[k]
              /\ IS_UNSIGNED_ENUM(descs[d]) <=> descs[d].etd_base_type \in UnsignedFlavors
        /\ \A i \in 1 .. Len(objs) :
              LET flavor == descs[objs[i].etd].etd_base_type
              IN  /\ objs[i].factory = FlavorBase(flavor)
                  /\ \A j \in 1 .. Len(objs[i].members) :
                        LET m == objs[i].members[j]
                        IN  m.name[1] = "m"
                              => m.value = FlavorValue(flavor, table[m.name[2]].ii_val)
        /\ (last.op = "sip_api_convert_from_enum" /\ ~last.err)
              => last.res_inst.value
                    = FlavorValue(descs[last.td].etd_base_type, last.arg_int)
        /\ (last.op = "sip_api_convert_to_enum" /\ ~last.err)
              => last.arg_inst.value
                    = FlavorValue(descs[last.td].etd_base_type, last.rc)

C15_Witness ==
    /\ last.op = "sip_api_convert_to_enum" /\ ~last.err
    /\ RegisteredAtCall
    /\ descs[last.td].etd_base_type = "SIP_ENUM_UINT_ENUM"
    /\ objs[slot[last.td]].factory = "int_enum_type"
    /\ last.arg_inst.kind = "member"
    /\ last.arg_inst.value = UINT_MAX_PY
    /\ last.rc = -1
    /\ \E d \in Enums :
          /\ Registered(d)
          /\ descs[d].etd_base_type = "SIP_ENUM_FLAG"
          /\ objs[slot[d]].factory = "flag_type"

\* C16: sip_enum_create() leaves the cursor where it was when it fails before
\* or while the members dict is built, and otherwise moves it on by exactly
\* etd_nr_members; a call that fails later, in building the arguments, in the
\* host's construction, in attaching __sip__ or in the insertion into the
\* namespace, leaves it moved on.
C16_CursorFrame ==
    (LastIsCreate /\ ~crashed) =>
        LET n == descs[last.td].etd_nr_members
        IN  /\ cursor \in {last.cursor0, last.cursor0 + n}
            /\ last.fp \in {"name", "dict_new", "set_member"}
                  => last.rc < 0 /\ cursor = last.cursor0
            /\ (last.fp \in {"args", "host", "attach", "dict_set"} /\ ~last.over)
                  => last.rc < 0 /\ cursor = last.cursor0 + n
            /\ last.rc = 0 => cursor = last.cursor0 + n

C16_Witness ==
    /\ LastIsCreate /\ ~crashed /\ ~last.over
    /\ last.fp = "dict_set"
    /\ last.rc < 0
    /\ last.td = NumEnums
    /\ last.cursor0 = MaxMembers
    /\ descs[last.td].etd_nr_members = MaxMembers
    /\ cursor = last.cursor0 + MaxMembers

\* C17: sip_enum_create() returns 0 only if the namespace maps the enum's name
\* to the object made by the call and td_py_type is that same object; when
\* PyDict_SetItem() fails the call returns an error and td_py_type is not left
\* pointing at an object all of whose references have been released.
C17_RegisterPublishes ==
    (LastIsCreate /\ ~crashed) =>
        /\ last.rc = 0
              => /\ slot[last.td] > last.made0
                 /\ <<sipPyNameOfEnum(last.td), slot[last.td]>> \in dict
                 /\ objs[slot[last.td]].refcnt > 0
        /\ last.fp = "dict_set"
              => /\ last.rc < 0
                 /\ slot[last.td] = NULL \/ objs[slot[last.td]].refcnt > 0

\* C18: a conversion for which get_enum_type() returned NULL fails with an
\* error; the NULL is not used as the class of the instance check (a NULL
\* dereference, which can end the process).
C18_NullTypeRejected ==
    (/\ last.op \in {"sip_api_convert_from_enum", "sip_api_convert_to_enum"}
     /\ last.res_obj = NULL)
        => last.err /\ ~crashed

====
